---- MODULE Spec2Model ----
(***************************************************************************)
(* The Engine Bridge of flask_app/app.py: the process-wide lock, the       *)
(* engine process handle, degraded mode, start_backend, send_to_backend,   *)
(* ensure_user_registered and send_with_retry, run by concurrent request   *)
(* threads against an engine process that may exit at any moment.          *)
(***************************************************************************)
EXTENDS Naturals, Sequences, FiniteSets

\* ----------------------------------------------------------------- bounds
NumThreads == 2       \* concurrent request threads
MaxRequests == 2      \* route invocations served in one run
MaxSpawns == 2        \* engine processes the operating system will create

Threads == 1 .. NumThreads
MainThread == 0       \* the thread that runs the __main__ block
Runners == 0 .. NumThreads
Pids == 1 .. MaxSpawns
None == 0             \* BACKEND_PROCESS = None

\* ------------------------------------------------- strings and JSON values
\* A string is the sequence of its words; "in" is containment of a
\* contiguous run of words.
StrIn(needle, hay) ==
    \E i \in 1 .. (Len(hay) + 1 - Len(needle)) :
        \A j \in 1 .. Len(needle) : hay[i + j - 1] = needle[j]

MarkerUserNotFound == <<"User", "not", "found">>
MarkerInvalidUser == <<"Invalid", "user">>

\* A parsed JSON value: an object with optional "success" and "message"
\* members, or a value that is no object (an array).
Obj(s, mt, m) == [type |-> "object", success |-> s, msgType |-> mt, message |-> m]
JsonArray == [type |-> "array", success |-> "absent", msgType |-> "absent", message |-> <<>>]

\* What one readline() of the engine's stdout can yield: "" (end of input),
\* a line that is not JSON, or a line holding a JSON value.
EmptyLine == [kind |-> "empty", value |-> JsonArray]
GarbageLine == [kind |-> "garbage", value |-> JsonArray]
JsonLine(v) == [kind |-> "json", value |-> v]

EngineValues ==
    { Obj("true", "str", <<"OK">>),
      Obj("false", "str", <<"User", "not", "found">>),
      Obj("false", "str", <<"Error:", "Invalid", "user", "ID">>),
      Obj("false", "str", <<"Book", "not", "available">>),
      Obj("true", "str", <<"User", "not", "found">>),
      Obj("false", "null", <<>>),
      JsonArray }

EngineLines == {EmptyLine, GarbageLine} \cup {JsonLine(v) : v \in EngineValues}

\* The local failure responses of send_to_backend.
Failure(m) == Obj("false", "str", m)
EmptyOutput == Failure(<<"Backend", "not", "responding", "(Empty", "Output)">>)
NoneTypeError(attr) == Failure(<<"'NoneType'", "object", "has", "no", "attribute", attr>>)
BrokenPipeError == Failure(<<"[Errno", "32]", "Broken", "pipe">>)
JSONDecodeError == Failure(<<"Expecting", "value">>)

NoResponse == Obj("absent", "absent", <<>>)

\* The routes: /api/search calls send_to_backend; /api/issue (like return,
\* reserve and profile) calls send_with_retry and needs session['user_id'].
Payloads == {"search", "issue"}
UsesRetry(action) == action # "search"
\* Line 367: session['user_id'] is read before send_with_retry is called, so
\* the key is there; /api/search never looks at the session.
HasSession(action) == action # "search"

AddUser == "add_user"

\* ------------------------------------------- document store and flat files
MaxDocs == 2          \* documents in a collection, data rows in a legacy file

\* A member of a document that may be missing: {} or {value}; dict.get with
\* a default.
Get(member, default) == IF member = {} THEN default ELSE CHOOSE v \in member : TRUE

\* Numbers are text in a flat file: str() as the csv writer applies it, and
\* int() of such a text.
Text(n) == <<"text", n>>
Int(text) == text[2]

\* str.upper() on the user types that occur.
Upper(type) ==
    CASE type = "student" -> "STUDENT"
      [] type = "faculty" -> "FACULTY"
      [] OTHER -> type

\* A flat file: missing, or a header line and data rows.
File(header, rows) == [exists |-> TRUE, header |-> header, rows |-> rows]
Missing == [exists |-> FALSE, header |-> <<>>, rows |-> <<>>]

\* The fieldnames of the three csv.DictWriter objects.
BooksColumns == <<"ISBN", "Title", "Author", "Category", "Copies">>
UsersColumns == <<"UserID", "Name", "Email", "Type">>
TransColumns == <<"TID", "UID", "BID", "CID", "Type", "Timestamp">>
\* The line written for an empty transactions collection, split at the commas.
TransHeaderLine == <<"TID", "UID", "BID", "CID", "Type", "Timestamp">>

\* Lines 85-91, 100-105 and 114-121: the row written for a document.
BookRow(b) ==
    [ISBN |-> b.isbn, Title |-> b.title, Author |-> b.author,
     Category |-> b.category, Copies |-> Text(Get(b.copies, 1))]
UserRow(u) ==
    [UserID |-> u.userID, Name |-> u.name, Email |-> u.email,
     Type |-> Get(u.type, "STUDENT")]
TransRow(t) ==
    [TID |-> Get(t.tid, "TXN_INF"), UID |-> t.userID, BID |-> t.isbn,
     CID |-> Get(t.copyID, ""), Type |-> t.type,
     Timestamp |-> Text(Get(t.timestamp, 0))]

\* Lines 139-145 and 157-162: the document inserted for a legacy row.
BookDoc(row) ==
    [isbn |-> row.ISBN, title |-> row.Title, author |-> row.Author,
     category |-> row.Category, copies |-> {Int(row.Copies)}]
UserDoc(row) ==
    [userID |-> row.UserID, name |-> row.Name, email |-> row.Email,
     type |-> {row.Type}]

\* Documents the store holds before the bridge starts: books of an earlier
\* migration, users upserted by /login (type upper-cased there), transactions
\* inserted by /api/issue (no copyID member).
StoreBook(i) ==
    [isbn |-> <<"isbn", i>>, title |-> <<"title", i>>, author |-> <<"author", i>>,
     category |-> <<"category", i>>, copies |-> {i}]
StoreUser(i) ==
    [userID |-> <<"user", i>>, name |-> <<"name", i>>, email |-> <<"email", i>>,
     type |-> {"FACULTY"}]
StoreTxn(i) ==
    [tid |-> {<<"TXN", i>>}, userID |-> <<"user", i>>, isbn |-> <<"isbn", i>>,
     copyID |-> {}, type |-> "ISSUE", timestamp |-> {i}]
StoreBooks(n) == [i \in 1 .. n |-> StoreBook(i)]
StoreUsers(n) == [i \in 1 .. n |-> StoreUser(i)]
StoreTxns(n) == [i \in 1 .. n |-> StoreTxn(i)]

\* The legacy flat files under BASE_DIR/../data: other books than the
\* store's, and user types as the engine was given them by /login.
LegacyBookRow(i) ==
    [ISBN |-> <<"legacy isbn", i>>, Title |-> <<"title", i>>,
     Author |-> <<"author", i>>, Category |-> <<"category", i>>,
     Copies |-> Text(i)]
LegacyUserRow(i) ==
    [UserID |-> <<"legacy user", i>>, Name |-> <<"name", i>>,
     Email |-> <<"email", i>>,
     Type |-> IF i = 1 THEN "student" ELSE "FACULTY"]
LegacyBooks(m) == File(BooksColumns, [i \in 1 .. m |-> LegacyBookRow(i)])
LegacyUsers(m) == File(UsersColumns, [i \in 1 .. m |-> LegacyUserRow(i)])

\* What an earlier run of the bridge left in the data directory: one row each.
StaleBooks == File(BooksColumns, <<BookRow(StoreBook(MaxDocs + 1))>>)
StaleUsers == File(UsersColumns, <<UserRow(StoreUser(MaxDocs + 1))>>)
StaleTrans == File(TransColumns, <<TransRow(StoreTxn(MaxDocs + 1))>>)

\* Mutant: migration does not look at the size of the collection.
CollectionAnySize(coll) == TRUE

\* Lines 131 and 149: count_documents({}) == 0.
CollectionEmpty(coll) == Len(coll) = 0

\* Lines 131-147: the books collection after initial_migration.
MigratedBooks(coll, local) ==
    IF CollectionEmpty(coll) /\ local.exists /\ Len(local.rows) > 0
      THEN coll \o [i \in 1 .. Len(local.rows) |-> BookDoc(local.rows[i])]
      ELSE coll

\* Lines 149-164: the users collection after initial_migration.
MigratedUsers(coll, local) ==
    IF CollectionEmpty(coll) /\ local.exists /\ Len(local.rows) > 0
      THEN coll \o [i \in 1 .. Len(local.rows) |-> UserDoc(local.rows[i])]
      ELSE coll

\* Lines 78-91: BOOKS_CSV after the books part of rehydrate_from_mongodb.
RehydratedBooks(coll, old) ==
    IF Len(coll) > 0
      THEN File(BooksColumns, [i \in 1 .. Len(coll) |-> BookRow(coll[i])])
      ELSE old

\* Lines 94-105: USERS_CSV after the users part.
RehydratedUsers(coll, old) ==
    IF Len(coll) > 0
      THEN File(UsersColumns, [i \in 1 .. Len(coll) |-> UserRow(coll[i])])
      ELSE old

\* Lines 108-125: TRANS_CSV after the transactions part.
RehydratedTrans(coll) ==
    IF Len(coll) > 0
      THEN File(TransColumns, [i \in 1 .. Len(coll) |-> TransRow(coll[i])])
      ELSE File(TransHeaderLine, <<>>)

\* The store operations of the startup sync, in the order they are made; any
\* of them can raise (the server is not reachable, or the truth value of the
\* Database object is refused), which ends the sync there.
SyncSteps ==
    <<"migrate_books", "migrate_users", "rehydrate_books", "rehydrate_users",
      "rehydrate_txns">>
Faults == {"none"} \cup {SyncSteps[i] : i \in 1 .. Len(SyncSteps)}
Position(step) == CHOOSE i \in 1 .. Len(SyncSteps) : SyncSteps[i] = step
\* The step was completed by a sync that met the given fault.
Completed(step, fault) == fault = "none" \/ Position(step) < Position(fault)

\* ------------------------------------------------------------------ state
VARIABLES
    execExists,        \* os.path.exists(BACKEND_EXECUTABLE), fixed for the run
    proc,              \* every engine process ever created: unborn, alive, exited
    BACKEND_LOCK,      \* threading.Lock: TRUE when locked
    BACKEND_PROCESS,   \* the recorded handle: None or a pid
    USE_MOCK_BACKEND,
    MOCK_BOOKS,        \* TRUE when the in-memory list is non-empty
    pc,                \* each thread's position
    sbRet,             \* which call of start_backend a thread is inside
    session,           \* the route found 'user_id' in session
    payload,           \* the action of the route's request
    stage,             \* which send_to_backend call of send_with_retry is running
    resp,              \* what the last send_to_backend call returned
    result,            \* what the route got back
    calls,             \* the actions passed to send_to_backend in this request
    trace,             \* what the current send_to_backend (or main) did, in order
    requests,          \* route invocations so far
    db,                \* TRUE when MONGODB_URI is set and db is a Database
    books,             \* the documents of db.books, in insertion order
    users,             \* the documents of db.users
    txns,              \* the documents of db.transactions
    localBooks,        \* BASE_DIR/../data/books.csv, the legacy file
    localUsers,        \* BASE_DIR/../data/users.csv
    BOOKS_CSV,         \* DATA_DIR/books.csv, the engine's input
    USERS_CSV,
    TRANS_CSV,
    lastSync,          \* how the latest startup sync ended; "none" before the first
    restartFailed      \* a restart after a detected exit has failed to spawn

env == <<execExists, proc>>
globals == <<BACKEND_LOCK, BACKEND_PROCESS, USE_MOCK_BACKEND, MOCK_BOOKS>>
request == <<session, payload, stage, result, calls, requests>>
store == <<db, books, users, txns>>
legacy == <<localBooks, localUsers>>
files == <<BOOKS_CSV, USERS_CSV, TRANS_CSV>>
history == <<lastSync, restartFailed>>
vars == <<execExists, proc, BACKEND_LOCK, BACKEND_PROCESS, USE_MOCK_BACKEND,
          MOCK_BOOKS, pc, sbRet, session, payload, stage, resp,
          result, calls, trace, requests, db, books, users, txns, localBooks,
          localUsers, BOOKS_CSV, USERS_CSV, TRANS_CSV, lastSync, restartFailed>>

\* The bridge after the module is loaded: nothing started, no request yet.
InitBridge ==
    /\ proc = [p \in Pids |-> "unborn"]
    /\ BACKEND_LOCK = FALSE
    /\ BACKEND_PROCESS = None
    /\ USE_MOCK_BACKEND = FALSE
    /\ MOCK_BOOKS = FALSE
    /\ \E boot \in {"sb_exists", "done"} :
           pc = [r \in Runners |-> IF r = MainThread THEN boot ELSE "idle"]
    /\ sbRet = [r \in Runners |-> "main"]
    /\ session = [r \in Runners |-> FALSE]
    /\ payload = [r \in Runners |-> "search"]
    /\ stage = [r \in Runners |-> "first"]
    /\ resp = [r \in Runners |-> NoResponse]
    /\ result = [r \in Runners |-> NoResponse]
    /\ calls = [r \in Runners |-> <<>>]
    /\ trace = [r \in Runners |-> <<>>]
    /\ requests = 0
    /\ lastSync = "none"
    /\ restartFailed = FALSE

\* MONGODB_URI is not set (db = None), the data directory is new and there
\* are no legacy files.
NoStore ==
    /\ db = FALSE
    /\ books = <<>>
    /\ users = <<>>
    /\ txns = <<>>
    /\ localBooks = Missing
    /\ localUsers = Missing
    /\ BOOKS_CSV = Missing
    /\ USERS_CSV = Missing
    /\ TRANS_CSV = Missing

Init ==
    /\ execExists \in BOOLEAN
    /\ InitBridge
    /\ NoStore

\* The trace is kept for the calls of send_to_backend, not for __main__.
Log(r, events) ==
    trace' = [trace EXCEPT ![r] = IF r = MainThread THEN <<>> ELSE @ \o events]
Goto(r, where) == pc' = [pc EXCEPT ![r] = where]

\* The steps between a return of send_to_backend and the next wait for the
\* lock (or the route's answer) read and write only the thread's own
\* variables, so they commute with every step of the other threads and of the
\* engine: they are taken before any other step.
LocalPending == \E t \in Threads : pc[t] \in {"returned", "replied", "raised"}

\* ------------------------------------------------------------ environment
\* The engine process exits (a crash, or a kill from outside).
EngineExit(p) ==
    /\ ~LocalPending
    /\ proc[p] = "alive"
    /\ proc' = [proc EXCEPT ![p] = "exited"]
    /\ UNCHANGED <<execExists, globals, pc, sbRet, resp, trace, request>>
    /\ UNCHANGED <<store, legacy, files, history>>

\* ---------------------------------------------------------- start_backend
\* Where start_backend returns to: the __main__ block, line 249 or line 254.
AfterStart(r) ==
    CASE sbRet[r] = "main" -> "done"
      [] sbRet[r] = "first" -> "poll"
      [] sbRet[r] = "restart" -> "write"

\* Mutant: the executable is taken to be there.
ExecutableAssumed == FALSE

\* Line 192.
ExecutableMissing == ~execExists

\* Mutant: start_backend does not look at the handle.
HandleNotChecked == TRUE

\* Line 197.
HandleUnset == BACKEND_PROCESS = None

\* Mutant: start_backend goes to the spawn without the startup sync.
StartBackendNoSync(r) ==
    /\ ~LocalPending
    /\ pc[r] = "sb_exists"
    /\ IF ExecutableMissing
         THEN /\ USE_MOCK_BACKEND' = TRUE
              /\ Goto(r, AfterStart(r))
         ELSE /\ UNCHANGED USE_MOCK_BACKEND
              /\ Goto(r, IF HandleUnset THEN "sb_spawn" ELSE AfterStart(r))
    /\ UNCHANGED <<env, BACKEND_LOCK, BACKEND_PROCESS, MOCK_BOOKS, sbRet, resp,
                   trace, request>>
    /\ UNCHANGED <<store, legacy, files, history>>

\* Lines 192-197.
StartBackend(r) ==
    /\ ~LocalPending
    /\ pc[r] = "sb_exists"
    /\ IF ExecutableMissing
         THEN /\ USE_MOCK_BACKEND' = TRUE
              /\ Goto(r, AfterStart(r))
         ELSE /\ UNCHANGED USE_MOCK_BACKEND
              /\ Goto(r, IF HandleUnset THEN "sb_sync" ELSE AfterStart(r))
    /\ UNCHANGED <<env, BACKEND_LOCK, BACKEND_PROCESS, MOCK_BOOKS, sbRet, resp,
                   trace, request>>
    /\ UNCHANGED <<store, legacy, files, history>>

\* Lines 71-164 as run by lines 199-201: initial_migration() and then
\* rehydrate_from_mongodb(), up to the store operation that raises, if one
\* does. Without a store both return at once.
SyncBooks(fault) ==
    IF Completed("migrate_books", fault)
      THEN MigratedBooks(books, localBooks) ELSE books
SyncUsers(fault) ==
    IF Completed("migrate_users", fault)
      THEN MigratedUsers(users, localUsers) ELSE users
RunStartupSync(fault) ==
    /\ books' = SyncBooks(fault)
    /\ users' = SyncUsers(fault)
    /\ BOOKS_CSV' = IF Completed("rehydrate_books", fault)
                      THEN RehydratedBooks(SyncBooks(fault), BOOKS_CSV)
                      ELSE BOOKS_CSV
    /\ USERS_CSV' = IF Completed("rehydrate_users", fault)
                      THEN RehydratedUsers(SyncUsers(fault), USERS_CSV)
                      ELSE USERS_CSV
    /\ TRANS_CSV' = IF Completed("rehydrate_txns", fault)
                      THEN RehydratedTrans(txns)
                      ELSE TRANS_CSV
    /\ lastSync' = IF fault = "none" THEN "complete" ELSE "raised"

\* Lines 199-204: the startup sync; an exception of either function switches
\* to the mock backend and start_backend goes on to line 207.
StartupSync(r) ==
    /\ ~LocalPending
    /\ pc[r] = "sb_sync"
    /\ IF db
         THEN \E fault \in Faults :
                  /\ RunStartupSync(fault)
                  /\ USE_MOCK_BACKEND' = (USE_MOCK_BACKEND \/ fault # "none")
         ELSE /\ lastSync' = "noop"
              /\ UNCHANGED <<books, users, files, USE_MOCK_BACKEND>>
    /\ Log(r, <<"sync">>)
    /\ Goto(r, "sb_spawn")
    /\ UNCHANGED <<env, BACKEND_LOCK, BACKEND_PROCESS, MOCK_BOOKS, sbRet, resp,
                   request, db, txns, legacy, restartFailed>>

Alive(h) == h # None /\ proc[h] = "alive"

Unborn == {p \in Pids : proc[p] = "unborn"}

\* Lines 211-222 and 225-227: subprocess.Popen creates a process, or raises.
Spawn(r) ==
    /\ ~LocalPending
    /\ pc[r] = "sb_spawn"
    /\ \/ /\ Unborn # {}
          /\ LET p == CHOOSE q \in Unborn : \A o \in Unborn : q <= o
             IN  /\ proc' = [proc EXCEPT ![p] = "alive"]
                 /\ BACKEND_PROCESS' = p
          /\ UNCHANGED <<USE_MOCK_BACKEND, restartFailed>>
          /\ Log(r, <<"spawn">>)
          /\ Goto(r, "sb_banner")
       \/ /\ USE_MOCK_BACKEND' = TRUE
          /\ restartFailed' = (restartFailed \/ sbRet[r] = "restart")
          /\ UNCHANGED <<proc, BACKEND_PROCESS>>
          /\ Log(r, <<"spawn_failed">>)
          /\ Goto(r, AfterStart(r))
    /\ UNCHANGED <<execExists, BACKEND_LOCK, MOCK_BOOKS, sbRet, resp, request>>
    /\ UNCHANGED <<store, legacy, files, lastSync>>

\* Mutant: the banner is left unread.
BannerNotRead(r) ==
    /\ ~LocalPending
    /\ pc[r] = "sb_banner"
    /\ Goto(r, AfterStart(r))
    /\ UNCHANGED <<env, globals, sbRet, resp, trace, request>>
    /\ UNCHANGED <<store, legacy, files, history>>

\* Line 224: one readline() of the new process's stdout; it yields the banner,
\* or "" when the process has exited, and raises in neither case.
ReadBanner(r) ==
    /\ ~LocalPending
    /\ pc[r] = "sb_banner"
    /\ Log(r, <<IF Alive(BACKEND_PROCESS) THEN "banner" ELSE "banner_eof">>)
    /\ Goto(r, AfterStart(r))
    /\ UNCHANGED <<env, globals, sbRet, resp, request>>
    /\ UNCHANGED <<store, legacy, files, history>>

\* -------------------------------------------------------- send_to_backend
\* Mutant: the with-block is entered without the lock.
LockIgnored == TRUE

\* Line 231: the lock can be taken.
LockFree == ~BACKEND_LOCK

\* Lines 168-185: MOCK_BOOKS after load_mock_books(): non-empty when the
\* bundled books file is read and has rows, [] otherwise.
LoadMockBooks == BOOLEAN

\* Lines 229-246: take the lock; in mock mode load the mock books when there
\* are none (the rest of the mock branch is "pass"); call start_backend().
EnterCall(t) ==
    /\ ~LocalPending
    /\ pc[t] = "send"
    /\ LockFree
    /\ BACKEND_LOCK' = TRUE
    /\ IF USE_MOCK_BACKEND
         THEN /\ trace' = [trace EXCEPT ![t] = <<"mock">>]
              /\ IF ~MOCK_BOOKS
                   THEN MOCK_BOOKS' \in LoadMockBooks
                   ELSE UNCHANGED MOCK_BOOKS
         ELSE /\ trace' = [trace EXCEPT ![t] = <<>>]
              /\ UNCHANGED MOCK_BOOKS
    /\ sbRet' = [sbRet EXCEPT ![t] = "first"]
    /\ Goto(t, "sb_exists")
    /\ UNCHANGED <<env, BACKEND_PROCESS, USE_MOCK_BACKEND, resp, request>>
    /\ UNCHANGED <<store, legacy, files, history>>

\* Mutant: the value is returned with the lock still held.
ReturnKeepsLock(t, value) ==
    /\ resp' = [resp EXCEPT ![t] = value]
    /\ UNCHANGED BACKEND_LOCK
    /\ Goto(t, "returned")

\* The return statements of lines 259, 261 and 264: the value goes to the
\* caller and the with-block releases the lock.
Return(t, value) ==
    /\ resp' = [resp EXCEPT ![t] = value]
    /\ BACKEND_LOCK' = FALSE
    /\ Goto(t, "returned")

\* Lines 249-252: poll() of the handle; None has no poll(); an exited
\* process is forgotten and start_backend() is called again.
Poll(t) ==
    /\ ~LocalPending
    /\ pc[t] = "poll"
    /\ IF BACKEND_PROCESS = None
         THEN /\ Return(t, NoneTypeError("'poll'"))
              /\ UNCHANGED <<BACKEND_PROCESS, sbRet, trace>>
         ELSE IF proc[BACKEND_PROCESS] = "exited"
         THEN /\ BACKEND_PROCESS' = None
              /\ sbRet' = [sbRet EXCEPT ![t] = "restart"]
              /\ Log(t, <<"poll", "clear">>)
              /\ Goto(t, "sb_exists")
              /\ UNCHANGED <<BACKEND_LOCK, resp>>
         ELSE /\ Log(t, <<"poll">>)
              /\ Goto(t, "write")
              /\ UNCHANGED <<BACKEND_LOCK, BACKEND_PROCESS, sbRet, resp>>
    /\ UNCHANGED <<env, USE_MOCK_BACKEND, MOCK_BOOKS, request>>
    /\ UNCHANGED <<store, legacy, files, history>>

\* Lines 254-255: write the request line and flush; None has no stdin; the
\* pipe of an exited process is broken.
Write(t) ==
    /\ ~LocalPending
    /\ pc[t] = "write"
    /\ IF BACKEND_PROCESS = None
         THEN /\ Return(t, NoneTypeError("'stdin'"))
              /\ UNCHANGED trace
         ELSE IF proc[BACKEND_PROCESS] = "exited"
         THEN /\ Return(t, BrokenPipeError)
              /\ Log(t, <<"write_failed">>)
         ELSE /\ Log(t, <<"write">>)
              /\ Goto(t, "read")
              /\ UNCHANGED <<BACKEND_LOCK, resp>>
    /\ UNCHANGED <<env, BACKEND_PROCESS, USE_MOCK_BACKEND, MOCK_BOOKS, sbRet, request>>
    /\ UNCHANGED <<store, legacy, files, history>>

\* json.loads: the value of a line that holds JSON.
Parses(line) == line.kind = "json"

\* Lines 258-264: what send_to_backend returns for the line it read.
Response(line) ==
    IF line.kind = "empty" THEN EmptyOutput
    ELSE IF Parses(line) THEN line.value
    ELSE JSONDecodeError

\* Mutant: an empty read is followed by another read.
ReadAgainOnEmpty(t) ==
    /\ ~LocalPending
    /\ pc[t] = "read"
    /\ \E line \in EngineLines :
           IF line.kind = "empty"
             THEN UNCHANGED <<pc, resp, BACKEND_LOCK>>
             ELSE Return(t, Response(line))
    /\ Log(t, <<"read">>)
    /\ UNCHANGED <<env, BACKEND_PROCESS, USE_MOCK_BACKEND, MOCK_BOOKS, sbRet, request>>
    /\ UNCHANGED <<store, legacy, files, history>>

\* Mutant: an empty read makes the bridge forget the process.
ReadForgetsOnEmpty(t) ==
    /\ ~LocalPending
    /\ pc[t] = "read"
    /\ \E line \in EngineLines :
           /\ Return(t, Response(line))
           /\ BACKEND_PROCESS' = IF line.kind = "empty" THEN None ELSE BACKEND_PROCESS
    /\ Log(t, <<"read">>)
    /\ UNCHANGED <<env, USE_MOCK_BACKEND, MOCK_BOOKS, sbRet, request>>
    /\ UNCHANGED <<store, legacy, files, history>>

\* Lines 257-264: one readline() of the engine's stdout, then the return.
Read(t) ==
    /\ ~LocalPending
    /\ pc[t] = "read"
    /\ \E line \in EngineLines : Return(t, Response(line))
    /\ Log(t, <<"read">>)
    /\ UNCHANGED <<env, BACKEND_PROCESS, USE_MOCK_BACKEND, MOCK_BOOKS, sbRet, request>>
    /\ UNCHANGED <<store, legacy, files, history>>

\* -------------------------------------------------------- send_with_retry
Falsy(success) == success # "true"

HasMarker(msg) == StrIn(MarkerUserNotFound, msg) \/ StrIn(MarkerInvalidUser, msg)

\* Lines 284-285 raise: a response with no get(), or "in" applied to None.
RetryRaises(response) ==
    \/ response.type # "object"
    \/ Falsy(response.success) /\ response.msgType = "null"

\* Mutant: the success member is not looked at.
RecoverableAnySuccess(response) == HasMarker(response.message)

\* Line 285: not response.get("success") and a marker in the message.
Recoverable(response) == Falsy(response.success) /\ HasMarker(response.message)

\* Line 286.
IdentityAvailable(t) == session[t]

\* A route is entered and calls send_to_backend (lines 355, 365) for the
\* first time in this request.
Request(t) ==
    /\ ~LocalPending
    /\ pc[MainThread] = "done"
    /\ pc[t] = "idle"
    /\ requests < MaxRequests
    /\ requests' = requests + 1
    /\ \E action \in Payloads :
           /\ payload' = [payload EXCEPT ![t] = action]
           /\ session' = [session EXCEPT ![t] = HasSession(action)]
           /\ calls' = [calls EXCEPT ![t] = <<action>>]
    /\ stage' = [stage EXCEPT ![t] = "first"]
    /\ result' = [result EXCEPT ![t] = NoResponse]
    /\ trace' = [trace EXCEPT ![t] = <<>>]
    /\ Goto(t, "send")
    /\ UNCHANGED <<env, globals, sbRet, resp>>
    /\ UNCHANGED <<store, legacy, files, history>>

\* /api/search: jsonify(send_to_backend(...)).
SearchReturns(t) ==
    /\ pc[t] = "returned"
    /\ ~UsesRetry(payload[t])
    /\ result' = [result EXCEPT ![t] = resp[t]]
    /\ Goto(t, "replied")
    /\ UNCHANGED <<env, globals, sbRet, resp, trace, session, payload, stage,
                   calls, requests>>
    /\ UNCHANGED <<store, legacy, files, history>>

\* Lines 281-291 after the first send_to_backend: raise, re-register, or
\* return the response.
FirstReturns(t) ==
    /\ pc[t] = "returned"
    /\ UsesRetry(payload[t])
    /\ stage[t] = "first"
    /\ IF RetryRaises(resp[t])
         THEN /\ Goto(t, "raised")
              /\ UNCHANGED <<result, stage, calls, resp, trace>>
         ELSE IF Recoverable(resp[t]) /\ IdentityAvailable(t)
         THEN /\ stage' = [stage EXCEPT ![t] = "add_user"]
              /\ calls' = [calls EXCEPT ![t] = Append(@, AddUser)]
              /\ resp' = [resp EXCEPT ![t] = NoResponse]
              /\ trace' = [trace EXCEPT ![t] = <<>>]
              /\ Goto(t, "send")
              /\ UNCHANGED result
         ELSE /\ result' = [result EXCEPT ![t] = resp[t]]
              /\ Goto(t, "replied")
              /\ UNCHANGED <<stage, calls, resp, trace>>
    /\ UNCHANGED <<env, globals, sbRet, session, payload, requests>>
    /\ UNCHANGED <<store, legacy, files, history>>

\* Lines 266-277 and 289: ensure_user_registered drops what add_user
\* returned, and the original request is sent again.
AddUserReturns(t) ==
    /\ pc[t] = "returned"
    /\ UsesRetry(payload[t])
    /\ stage[t] = "add_user"
    /\ stage' = [stage EXCEPT ![t] = "retry"]
    /\ calls' = [calls EXCEPT ![t] = Append(@, payload[t])]
    /\ resp' = [resp EXCEPT ![t] = NoResponse]
    /\ trace' = [trace EXCEPT ![t] = <<>>]
    /\ Goto(t, "send")
    /\ UNCHANGED <<env, globals, sbRet, session, payload, result, requests>>
    /\ UNCHANGED <<store, legacy, files, history>>

\* Mutant: a retry that fails with a marker again is retried again.
RetryReturnsLoop(t) ==
    /\ pc[t] = "returned"
    /\ UsesRetry(payload[t])
    /\ stage[t] = "retry"
    /\ IF Recoverable(resp[t]) /\ IdentityAvailable(t)
         THEN /\ stage' = [stage EXCEPT ![t] = "add_user"]
              /\ calls' = [calls EXCEPT ![t] = Append(@, AddUser)]
              /\ resp' = [resp EXCEPT ![t] = NoResponse]
              /\ trace' = [trace EXCEPT ![t] = <<>>]
              /\ Goto(t, "send")
              /\ UNCHANGED result
         ELSE /\ result' = [result EXCEPT ![t] = resp[t]]
              /\ Goto(t, "replied")
              /\ UNCHANGED <<stage, calls, resp, trace>>
    /\ UNCHANGED <<env, globals, sbRet, session, payload, requests>>
    /\ UNCHANGED <<store, legacy, files, history>>

\* Line 291 after the retry: the second response is returned.
RetryReturns(t) ==
    /\ pc[t] = "returned"
    /\ UsesRetry(payload[t])
    /\ stage[t] = "retry"
    /\ result' = [result EXCEPT ![t] = resp[t]]
    /\ Goto(t, "replied")
    /\ UNCHANGED <<env, globals, sbRet, resp, trace, session, payload, stage,
                   calls, requests>>
    /\ UNCHANGED <<store, legacy, files, history>>

\* The route has answered (or Flask has turned the exception into a 500) and
\* the thread is free for the next request.
Done(t) ==
    /\ pc[t] \in {"replied", "raised"}
    /\ Goto(t, "idle")
    /\ session' = [session EXCEPT ![t] = FALSE]
    /\ payload' = [payload EXCEPT ![t] = "search"]
    /\ stage' = [stage EXCEPT ![t] = "first"]
    /\ resp' = [resp EXCEPT ![t] = NoResponse]
    /\ result' = [result EXCEPT ![t] = NoResponse]
    /\ calls' = [calls EXCEPT ![t] = <<>>]
    /\ trace' = [trace EXCEPT ![t] = <<>>]
    /\ UNCHANGED <<env, globals, sbRet, requests>>
    /\ UNCHANGED <<store, legacy, files, history>>

\* ---------------------------------------------------------- specification
Next ==
    \/ \E p \in Pids : EngineExit(p)
    \/ \E r \in Runners : StartBackend(r)
    \/ \E r \in Runners : StartupSync(r)
    \/ \E r \in Runners : Spawn(r)
    \/ \E r \in Runners : ReadBanner(r)
    \/ \E t \in Threads : Request(t)
    \/ \E t \in Threads : EnterCall(t)
    \/ \E t \in Threads : Poll(t)
    \/ \E t \in Threads : Write(t)
    \/ \E t \in Threads : Read(t)
    \/ \E t \in Threads : SearchReturns(t)
    \/ \E t \in Threads : FirstReturns(t)
    \/ \E t \in Threads : AddUserReturns(t)
    \/ \E t \in Threads : RetryReturns(t)
    \/ \E t \in Threads : Done(t)

Spec == Init /\ [][Next]_vars

\* -------------------------------------- specification of the startup sync
\* One request thread, the executable in place, and every combination of:
\* a store or none, collections of 0 .. MaxDocs documents, legacy files
\* missing or of 0 .. MaxDocs rows, a data directory that is new or holds the
\* files of an earlier run.
SyncThreads == {1}

InitSync ==
    /\ execExists = TRUE
    /\ InitBridge
    /\ db \in BOOLEAN
    /\ \E n \in 0 .. MaxDocs :
           /\ books = (IF db THEN StoreBooks(n) ELSE <<>>)
           /\ users = (IF db THEN StoreUsers(n) ELSE <<>>)
           /\ txns = (IF db THEN StoreTxns(n) ELSE <<>>)
    /\ \E m \in 0 .. MaxDocs, there \in BOOLEAN :
           /\ localBooks = (IF there THEN LegacyBooks(m) ELSE Missing)
           /\ localUsers = (IF there THEN LegacyUsers(m) ELSE Missing)
    /\ \E stale \in BOOLEAN :
           /\ BOOKS_CSV = (IF stale THEN StaleBooks ELSE Missing)
           /\ USERS_CSV = (IF stale THEN StaleUsers ELSE Missing)
           /\ TRANS_CSV = (IF stale THEN StaleTrans ELSE Missing)

NextSync ==
    \/ \E p \in Pids : EngineExit(p)
    \/ \E r \in SyncThreads \cup {MainThread} : StartBackend(r)
    \/ \E r \in SyncThreads \cup {MainThread} : StartupSync(r)
    \/ \E r \in SyncThreads \cup {MainThread} : Spawn(r)
    \/ \E r \in SyncThreads \cup {MainThread} : ReadBanner(r)
    \/ \E t \in SyncThreads : Request(t)
    \/ \E t \in SyncThreads : EnterCall(t)
    \/ \E t \in SyncThreads : Poll(t)
    \/ \E t \in SyncThreads : Write(t)
    \/ \E t \in SyncThreads : Read(t)
    \/ \E t \in SyncThreads : SearchReturns(t)
    \/ \E t \in SyncThreads : FirstReturns(t)
    \/ \E t \in SyncThreads : AddUserReturns(t)
    \/ \E t \in SyncThreads : RetryReturns(t)
    \/ \E t \in SyncThreads : Done(t)

SpecSync == InitSync /\ [][NextSync]_vars

TypeOK ==
    /\ execExists \in BOOLEAN
    /\ BACKEND_LOCK \in BOOLEAN
    /\ BACKEND_PROCESS \in {None} \cup Pids
    /\ USE_MOCK_BACKEND \in BOOLEAN
    /\ MOCK_BOOKS \in BOOLEAN
    /\ requests \in 0 .. MaxRequests
    /\ db \in BOOLEAN
    /\ lastSync \in {"none", "noop", "complete", "raised"}
    /\ restartFailed \in BOOLEAN
    /\ \A f \in {BOOKS_CSV, USERS_CSV, TRANS_CSV} : f.exists \in BOOLEAN

\* ----------------------------------------------------------------- claims
\* A thread is inside send_to_backend's with-block.
InCall(t) ==
    pc[t] \in {"sb_exists", "sb_sync", "sb_spawn", "sb_banner", "poll", "write", "read"}

\* How many entries of a trace are among the given events.
Count(seq, events) == Cardinality({i \in 1 .. Len(seq) : seq[i] \in events})

\* The places of the given events in a trace.
Places(seq, events) == {i \in 1 .. Len(seq) : seq[i] \in events}

WriteEvents == {"write", "write_failed"}
SpawnEvents == {"spawn", "spawn_failed"}
BannerEvents == {"banner", "banner_eof"}
ProcessEvents ==
    {"spawn", "spawn_failed", "banner", "banner_eof", "poll", "write",
     "write_failed", "read"}

\* C1: no two send_to_backend calls overlap: at most one thread is inside the
\* with-block, and the lock is held for as long as a thread is inside it (from
\* the liveness check through restart, write and read).
C1_NoOverlap ==
    /\ \A t, u \in Threads : (t # u /\ InCall(t)) => ~InCall(u)
    /\ \A t \in Threads : InCall(t) => BACKEND_LOCK

\* C1 witness: one call has written its request and waits for the answer
\* while another caller is blocked at the lock.
C1_Witness ==
    \E t, u \in Threads : t # u /\ pc[t] = "read" /\ pc[u] = "send" /\ BACKEND_LOCK

\* C2 as claimed: every finished send_to_backend call has written the request
\* line exactly once and read at most one response line.
C2_ExactlyOneWrite ==
    \A t \in Threads :
        pc[t] = "returned" =>
            /\ Count(trace[t], WriteEvents) = 1
            /\ Count(trace[t], {"read"}) <= 1

\* C2 as amended: a send_to_backend call writes the request line at most once
\* and reads at most one response line, the read only after the one write
\* went through, both with the lock held and no other call inside; a call that
\* returns what it read from the engine has written exactly once.
C2_AtMostOneWriteOneRead ==
    \A t \in Threads :
        /\ Count(trace[t], WriteEvents) <= 1
        /\ Count(trace[t], {"read"}) <= 1
        /\ \A i \in Places(trace[t], {"read"}) : i > 1 /\ trace[t][i - 1] = "write"
        /\ pc[t] \in {"write", "read"} =>
               BACKEND_LOCK /\ \A u \in Threads \ {t} : ~InCall(u)
        /\ (pc[t] = "returned" /\ Count(trace[t], WriteEvents) = 0) =>
               resp[t] \in {NoneTypeError("'poll'"), NoneTypeError("'stdin'")}

\* C2 witness: a call returned after one write and one read.
C2_Witness ==
    \E t \in Threads :
        /\ pc[t] = "returned"
        /\ Count(trace[t], {"write"}) = 1
        /\ Count(trace[t], {"read"}) = 1

\* C3: at most one engine process is running, every running process is the
\* recorded handle, and start_backend reaches its spawn only with the handle
\* unset.
C3_OneEngine ==
    /\ Cardinality({p \in Pids : proc[p] = "alive"}) <= 1
    /\ \A p \in Pids : proc[p] = "alive" => BACKEND_PROCESS = p
    /\ \A r \in Runners : pc[r] \in {"sb_sync", "sb_spawn"} => BACKEND_PROCESS = None

\* C3 witness: a second engine process runs after the first one exited.
C3_Witness ==
    \E p, q \in Pids : p # q /\ proc[p] = "exited" /\ proc[q] = "alive"

\* C4: one send_with_retry sends the original request at most twice, with
\* exactly one add_user between the two; what the route gets back after a
\* retry is the second response as it came, also when it fails again.
C4_RetryAtMostOnce ==
    \A t \in Threads :
        LET p == payload[t] IN
        /\ calls[t] \in {<<>>, <<p>>, <<p, AddUser>>, <<p, AddUser, p>>}
        /\ pc[t] = "replied" => calls[t] \in {<<p>>, <<p, AddUser, p>>}
        /\ (pc[t] = "replied" /\ Len(calls[t]) = 3) => result[t] = resp[t]

\* C4 witness: the retry has failed with a marker again and its response is
\* what the route got.
C4_Witness ==
    \E t \in Threads :
        /\ pc[t] = "replied"
        /\ calls[t] = <<"issue", AddUser, "issue">>
        /\ result[t] = Obj("false", "str", <<"User", "not", "found">>)

\* The message of a response holds one of the two markers.
C5_MarkerIn(v) ==
    /\ v.msgType = "str"
    /\ \/ StrIn(<<"User", "not", "found">>, v.message)
       \/ StrIn(<<"Invalid", "user">>, v.message)

\* send_with_retry has the first response in hand and decides.
C5_Deciding(t) ==
    pc[t] = "returned" /\ UsesRetry(payload[t]) /\ stage[t] = "first"

\* C5 as claimed: the original request is sent again exactly when the
\* message of the first response holds a marker.
C5_RetryIffMarker ==
    [][\A t \in Threads :
          (C5_Deciding(t) /\ pc'[t] # "returned") =>
              (stage'[t] = "add_user" <=> C5_MarkerIn(resp[t]))]_vars

\* C5 as amended: the original request is sent again exactly when the first
\* response is a mapping whose success is falsy and whose message holds a
\* marker, and 'user_id' is in the session.
C5_RetryIffRecoverable ==
    [][\A t \in Threads :
          (C5_Deciding(t) /\ pc'[t] # "returned") =>
              ((stage'[t] = "add_user" /\ pc'[t] = "send"
                   /\ calls'[t] = <<payload[t], AddUser>>)
               <=> (/\ resp[t].type = "object"
                    /\ resp[t].success # "true"
                    /\ C5_MarkerIn(resp[t])
                    /\ session[t]))]_vars

\* C5 witness: the original request has been written to the engine a second
\* time.
C5_Witness ==
    \E t \in Threads :
        /\ stage[t] = "retry"
        /\ pc[t] = "read"
        /\ calls[t] = <<"issue", AddUser, "issue">>

\* What a call did, without the mark of mock mode.
Body(t) ==
    IF trace[t] # <<>> /\ trace[t][1] = "mock" THEN Tail(trace[t]) ELSE trace[t]

\* The call found the recorded process exited at its liveness check and
\* cleared the handle, having started nothing before.
FoundExited(t) ==
    Len(Body(t)) >= 2 /\ Body(t)[1] = "poll" /\ Body(t)[2] = "clear"

\* C6 as claimed: a call that finds the engine exited spawns exactly once,
\* reads exactly one banner and then writes the request to the new process.
C6_ExactlyOneRestart ==
    \A t \in Threads :
        (pc[t] = "returned" /\ FoundExited(t)) =>
            /\ Count(Body(t), {"spawn"}) = 1
            /\ Count(Body(t), BannerEvents) = 1
            /\ \E b \in Places(Body(t), BannerEvents) :
                   \E w \in Places(Body(t), WriteEvents) : b < w

\* C6 as amended: a call that finds the engine exited clears the handle and
\* makes exactly one restart attempt inside the same critical section; after
\* a spawn that succeeds exactly one banner read precedes the single write of
\* the request; after a spawn that fails nothing is read or written and the
\* call returns a failure.
C6_OneRestartAttempt ==
    \A t \in Threads :
        FoundExited(t) =>
            /\ InCall(t) => (BACKEND_LOCK /\ \A u \in Threads \ {t} : ~InCall(u))
            /\ Count(Body(t), SpawnEvents) <= 1
            /\ pc[t] = "returned" =>
                   \/ Body(t) \in
                          { <<"poll", "clear", "sync", "spawn", "banner", "write", "read">>,
                            <<"poll", "clear", "sync", "spawn", "banner", "write_failed">>,
                            <<"poll", "clear", "sync", "spawn", "banner_eof", "write_failed">> }
                   \/ /\ Body(t) = <<"poll", "clear", "sync", "spawn_failed">>
                      /\ resp[t] = NoneTypeError("'stdin'")

\* C6 witness: a call restarted the engine, read the banner, wrote the
\* request to the new process and read its answer.
C6_Witness ==
    \E t \in Threads :
        /\ pc[t] = "returned"
        /\ Body(t) = <<"poll", "clear", "sync", "spawn", "banner", "write", "read">>
        /\ \E p \in Pids : proc[p] = "exited"

\* A response as the caller is promised it: a mapping with a boolean success
\* and a string message.
WellFormed(v) ==
    v.type = "object" /\ v.success \in {"true", "false"} /\ v.msgType = "str"

\* C7 as claimed: nothing is raised out of send_with_retry, and what
\* send_to_backend and send_with_retry return is always well formed.
C7_AlwaysWellFormed ==
    \A t \in Threads :
        /\ pc[t] # "raised"
        /\ pc[t] = "returned" => WellFormed(resp[t])
        /\ pc[t] = "replied" => WellFormed(result[t])

\* C8: with the executable absent nothing is ever spawned: no process exists,
\* the handle stays unset, start_backend never gets past its first test, and
\* every call is in degraded mode once start_backend has run in it.
C8_NoSpawnWithoutExecutable ==
    ~execExists =>
        /\ BACKEND_PROCESS = None
        /\ \A p \in Pids : proc[p] = "unborn"
        /\ \A r \in Runners : pc[r] \notin {"sb_sync", "sb_spawn", "sb_banner"}
        /\ \A t \in Threads :
               /\ Count(trace[t], SpawnEvents \cup BannerEvents \cup {"sync"}) = 0
               /\ pc[t] \in {"poll", "returned"} => USE_MOCK_BACKEND

\* C8 witness: with the executable absent a second request's call has
\* returned, entered in mock mode, and the handle is unset.
C8_Witness ==
    /\ ~execExists
    /\ requests = 2
    /\ BACKEND_PROCESS = None
    /\ USE_MOCK_BACKEND
    /\ \E t \in Threads : pc[t] = "returned" /\ trace[t] = <<"mock">>

\* C9 as claimed: with the executable absent a search returns success true.
C9_DegradedSearchSucceeds ==
    \A t \in Threads :
        (~execExists /\ pc[t] = "returned" /\ payload[t] = "search") =>
            resp[t].success = "true"

\* C10 as claimed: a call entered in mock mode touches no process: it does
\* not spawn, poll, write or read.
C10_MockTouchesNoProcess ==
    \A t \in Threads :
        (trace[t] # <<>> /\ trace[t][1] = "mock") =>
            Count(trace[t], ProcessEvents) = 0

\* C11 as claimed: a start whose one banner read found the process already
\* exited (the read yields "") has failed: the bridge is in degraded mode from
\* then on.
C11_NoBannerDegrades ==
    \A t \in Threads :
        Count(trace[t], {"banner_eof"}) > 0 => USE_MOCK_BACKEND

\* C16: the read step of send_to_backend returns without raising and leaves
\* the process handle and the mode as they were, whatever the line read; for
\* the line "" the value returned is the failure object "Backend not
\* responding (Empty Output)".
C16_EmptyReadReturnsFailure ==
    [][\A t \in Threads :
          (pc[t] = "read" /\ pc'[t] # "read") =>
              /\ pc'[t] = "returned"
              /\ resp'[t] \in {Response(line) : line \in EngineLines}
              /\ Response(EmptyLine) = EmptyOutput
              /\ BACKEND_PROCESS' = BACKEND_PROCESS
              /\ USE_MOCK_BACKEND' = USE_MOCK_BACKEND
              /\ proc' = proc]_vars

\* C16 witness: a call returned the empty-output failure, the engine process
\* it read from is still alive and still the recorded one, and the bridge is
\* not in degraded mode.
C16_Witness ==
    \E t \in Threads :
        /\ pc[t] = "returned"
        /\ resp[t] = EmptyOutput
        /\ Count(trace[t], {"read"}) = 1
        /\ Alive(BACKEND_PROCESS)
        /\ ~USE_MOCK_BACKEND

\* C20: the lock is held only while a send_to_backend call is inside its
\* with-block, so it is free whenever no call is executing; a thread that asks
\* for the lock (send_with_retry between its calls included) is never the one
\* that holds it.
C20_LockReleasedOnEveryExit ==
    /\ BACKEND_LOCK => \E t \in Threads : InCall(t)
    /\ \A t \in Threads :
           (pc[t] = "send" /\ BACKEND_LOCK) => \E u \in Threads \ {t} : InCall(u)
    /\ \A t \in Threads :
           (pc[t] \in {"returned", "replied", "raised", "idle"}
               /\ \A u \in Threads \ {t} : ~InCall(u)) => ~BACKEND_LOCK

\* C20 witness: send_with_retry is about to make its third send_to_backend
\* call (the retry, after the original and add_user) and the lock is free.
C20_Witness ==
    \E t \in Threads :
        /\ pc[t] = "send"
        /\ stage[t] = "retry"
        /\ calls[t] = <<payload[t], AddUser, payload[t]>>
        /\ ~BACKEND_LOCK

\* A step that runs the startup sync of lines 199-204.
SyncStep == \E r \in Runners : pc[r] = "sb_sync" /\ pc'[r] = "sb_spawn"

\* C12 as claimed: an engine process is spawned only in a start whose
\* rehydration ran to completion (without a store there is nothing to
\* project, which counts as complete here).
C12_SpawnAfterCompleteRehydration ==
    \A r \in Runners : pc[r] = "sb_banner" => lastSync \in {"complete", "noop"}

\* C13 as claimed: once a startup sync has run the transactions file exists
\* with its header row, so it exists whenever an engine process is spawned.
C13_TransFileAlwaysThere ==
    /\ lastSync # "none" => (TRANS_CSV.exists /\ TRANS_CSV.header = TransColumns)
    /\ \A r \in Runners : pc[r] = "sb_banner" => TRANS_CSV.exists

\* C14: no step changes a books or users collection that is not empty; what
\* the startup sync inserts into an empty collection is the documents of the
\* legacy file's rows and nothing else.
C14_MigrationOnlyIntoEmpty ==
    [][/\ Len(books) > 0 => books' = books
       /\ Len(users) > 0 => users' = users
       /\ books' # books =>
              /\ SyncStep
              /\ books' = [i \in 1 .. Len(localBooks.rows) |-> BookDoc(localBooks.rows[i])]
       /\ users' # users =>
              /\ SyncStep
              /\ users' = [i \in 1 .. Len(localUsers.rows) |-> UserDoc(localUsers.rows[i])]
      ]_vars

\* C14 witness: a startup sync ran to completion on a books collection that
\* was populated beforehand, with a legacy books file of other rows present.
C14_Witness ==
    /\ lastSync = "complete"
    /\ Len(books) > 0
    /\ books[1] = StoreBook(1)
    /\ localBooks.exists
    /\ Len(localBooks.rows) > 0
    /\ BookDoc(localBooks.rows[1]) # books[1]

\* C15 as claimed: after a rehydration that ran to completion each of the
\* three flat files exists, has the fixed column list as its header and has as
\* many data rows as its collection has documents, zero included.
C15_FilesMirrorCollections ==
    lastSync = "complete" =>
        /\ BOOKS_CSV.exists /\ BOOKS_CSV.header = BooksColumns
        /\ Len(BOOKS_CSV.rows) = Len(books)
        /\ USERS_CSV.exists /\ USERS_CSV.header = UsersColumns
        /\ Len(USERS_CSV.rows) = Len(users)
        /\ TRANS_CSV.exists /\ TRANS_CSV.header = TransColumns
        /\ Len(TRANS_CSV.rows) = Len(txns)

\* C17 as claimed: the startup sync runs at most once: a sync step is taken
\* only when no sync has run before.
C17_SyncAtMostOnce ==
    [][SyncStep => lastSync = "none"]_vars

\* C17 as amended: the startup sync runs in every start that finds no handle
\* recorded, directly before that start's spawn attempt: every spawn attempt
\* of a call follows a sync, every sync is followed by the spawn attempt, and
\* no process exists and no spawn is under way before a sync has run.
C17_SyncBeforeEverySpawn ==
    /\ \A t \in Threads :
           /\ \A i \in Places(trace[t], SpawnEvents) :
                  i > 1 /\ trace[t][i - 1] = "sync"
           /\ \A i \in Places(trace[t], {"sync"}) :
                  IF i = Len(trace[t])
                    THEN pc[t] = "sb_spawn"
                    ELSE trace[t][i + 1] \in SpawnEvents
    /\ \A r \in Runners : pc[r] \in {"sb_spawn", "sb_banner"} => lastSync # "none"
    /\ (\E p \in Pids : proc[p] # "unborn") => lastSync # "none"

\* C17 witness: a call found the engine exited and has run the startup sync
\* again for the restart, after the sync of the start that created the engine.
C17_Witness ==
    \E t \in Threads :
        /\ pc[t] = "sb_spawn"
        /\ trace[t] = <<"poll", "clear", "sync">>
        /\ \E p \in Pids : proc[p] = "exited"

\* C18 as claimed: a startup sync that runs to completion with the users
\* collection empty and a legacy users file present leaves one document for
\* each row of the file, its type the row's type in upper case.
C18_MigratedUsersUpperCased ==
    [][(SyncStep /\ lastSync' = "complete" /\ db /\ Len(users) = 0
           /\ localUsers.exists) =>
          /\ Len(users') = Len(localUsers.rows)
          /\ \A i \in 1 .. Len(users') :
                 users'[i].type = {Upper(localUsers.rows[i].Type)}]_vars

\* The events a step adds to a thread's trace.
Added(t) == {trace'[t][i] : i \in (Len(trace[t]) + 1) .. Len(trace'[t])}

\* C19 as claimed: once a restart after a detected exit has failed, the
\* bridge is in degraded mode and no later step spawns, polls, writes to or
\* reads from an engine process.
C19_DegradesAfterFailedRestart ==
    [][restartFailed =>
          /\ USE_MOCK_BACKEND
          /\ \A t \in Threads : Added(t) \cap ProcessEvents = {}]_vars
====
